---- MODULE Spec2Model ----
(***************************************************************************)
(* A model of scripts/enhance-dashboards.py: the configuration table, the  *)
(* apply routine enhance_dashboard, the panel walk update_panel_queries    *)
(* and the batch loop of main.                                             *)
(*                                                                         *)
(* Python strings are TLA+ strings (Len, SubSeq and \o act on them         *)
(* character by character).  A JSON value is a record whose field t is the *)
(* Python type json.load produces and whose second field, named after the  *)
(* type (b, n, s, l, d), is the value; a dict's d is a function from its   *)
(* keys to JSON values and a list's l a sequence of JSON values.           *)
(***************************************************************************)
EXTENDS Integers, Sequences, FiniteSets, TLC

VARIABLES
    dirExists,   \* main: whether dashboards_dir exists
    disk,        \* the dashboards directory: file name -> file content
    disk0,       \* history: the directory as it was when main started
    pc,          \* main: "start", "loop", "done" (completion printed), "exit" (sys.exit(1))
    idx,         \* main: position of the for loop in the configuration table
    out,         \* main: what has been printed, one record per message about a file
    enhCfg,      \* enhance_dashboard alone: the file (configuration entry) it is called for
    enhFile,     \* enhance_dashboard alone: the file's content now
    enhPrev,     \* history: the file's content before the latest call
    enhLog,      \* history: per call, the I/O outcome drawn and whether the call raised
    upqPanels,   \* update_panel_queries alone: its argument (mutated in place)
    upqPrev,     \* history: the argument before the latest call
    upqLog       \* history: per call, whether it raised

vars == <<dirExists, disk, disk0, pc, idx, out, enhCfg, enhFile, enhPrev, enhLog,
          upqPanels, upqPrev, upqLog>>

mainVars == <<dirExists, disk, disk0, pc, idx, out>>
enhVars == <<enhCfg, enhFile, enhPrev, enhLog>>
upqVars == <<upqPanels, upqPrev, upqLog>>

-----------------------------------------------------------------------------
(* Bounds of the input sets.                                               *)

MaxWrap == 1        \* function calls wrapped around one operand of an expr
MaxTargets == 2     \* targets of a generated panel
MaxPanels == 2      \* panels of a generated panel list
MaxRuns == 2        \* consecutive calls of the routine under study

-----------------------------------------------------------------------------
(* Python str operations.                                                  *)

\* the indices >= i where p occurs in s
Occurrences(s, p, i) == {j \in i..(Len(s) - Len(p) + 1) : SubSeq(s, j, j + Len(p) - 1) = p}

\* the least index of a set of indices, 0 if it is empty
First(occ) == IF occ = {} THEN 0 ELSE CHOOSE j \in occ : \A k \in occ : j <= k

\* str.find(p, i-1) + 1: the first index >= i where p occurs in s, 0 if none
FindFrom(s, p, i) == First(Occurrences(s, p, i))

\* p in s
Contains(s, p) == FindFrom(s, p, 1) # 0

RECURSIVE BeforeEach(_, _)
\* new put before every character of s
BeforeEach(s, new) ==
    IF Len(s) = 0 THEN ""
    ELSE IF Len(s) = 1 THEN new \o s
    ELSE LET h == Len(s) \div 2 IN
         BeforeEach(SubSeq(s, 1, h), new) \o BeforeEach(SubSeq(s, h + 1, Len(s)), new)

\* s.replace("", new, count): new goes before every character and at the end
Interleave(s, new, count) ==
    IF count < 0 \/ count > Len(s) THEN BeforeEach(s, new) \o new
    ELSE BeforeEach(SubSeq(s, 1, count), new) \o SubSeq(s, count + 1, Len(s))

RECURSIVE ReplaceN(_, _, _, _)
\* s.replace(old, new, count): leftmost non-overlapping occurrences; count < 0 is all
ReplaceN(s, old, new, count) ==
    IF old = "" THEN Interleave(s, new, count)
    ELSE IF count = 0 THEN s
    ELSE LET At(i) ==
                 IF i = 0 THEN s
                 ELSE SubSeq(s, 1, i - 1) \o new
                      \o ReplaceN(SubSeq(s, i + Len(old), Len(s)), old, new, count - 1)
         IN  At(FindFrom(s, old, 1))

Replace(s, old, new) == ReplaceN(s, old, new, -1)

RECURSIVE Split(_, _)
\* s.split(sep), sep non-empty
Split(s, sep) ==
    LET At(i) ==
            IF i = 0 THEN <<s>>
            ELSE <<SubSeq(s, 1, i - 1)>> \o Split(SubSeq(s, i + Len(sep), Len(s)), sep)
    IN  At(FindFrom(s, sep, 1))

Whitespace == {" ", "\t", "\n", "\r", "\f"}

RECURSIVE LStrip(_)
LStrip(s) ==
    IF s # "" /\ SubSeq(s, 1, 1) \in Whitespace THEN LStrip(SubSeq(s, 2, Len(s))) ELSE s

RECURSIVE RStrip(_)
RStrip(s) ==
    IF s # "" /\ SubSeq(s, Len(s), Len(s)) \in Whitespace
    THEN RStrip(SubSeq(s, 1, Len(s) - 1)) ELSE s

\* s.strip()
Strip(s) == RStrip(LStrip(s))

Digit(d) == SubSeq("0123456789", d + 1, d + 1)

RECURSIVE NatStr(_)
\* str(n) for an int n >= 0
NatStr(n) == IF n < 10 THEN Digit(n) ELSE NatStr(n \div 10) \o Digit(n % 10)

-----------------------------------------------------------------------------
(* JSON values as json.load builds them.                                   *)

JNull == [t |-> "null"]
JBool(b) == [t |-> "bool", b |-> b]
JNum(n) == [t |-> "num", n |-> n]
JStr(s) == [t |-> "str", s |-> s]
JList(l) == [t |-> "list", l |-> l]
JDict(d) == [t |-> "dict", d |-> d]

EmptyDict == JDict([k \in {} |-> JNull])

\* k in d, d a dict
Has(d, k) == k \in DOMAIN d.d

\* d.get(k, default)
Get(d, k, default) == IF k \in DOMAIN d.d THEN d.d[k] ELSE default

\* d[k] = val
Put(d, k, val) == JDict([x \in (DOMAIN d.d) \cup {k} |-> IF x = k THEN val ELSE d.d[x]])

\* not x
Falsy(x) ==
    CASE x.t = "null" -> TRUE
      [] x.t = "bool" -> ~x.b
      [] x.t = "num" -> x.n = 0
      [] x.t = "str" -> x.s = ""
      [] x.t = "list" -> x.l = <<>>
      [] x.t = "dict" -> DOMAIN x.d = {}

\* str(x) as an f-string formats it, for the scalar values ids and titles take
PyStr(x) ==
    CASE x.t = "str" -> x.s
      [] x.t = "num" -> NatStr(x.n)
      [] x.t = "null" -> "None"
      [] x.t = "bool" -> IF x.b THEN "True" ELSE "False"

\* The outcome of a piece of code: the object it worked on, and whether it raised.
Ok(x) == [raised |-> FALSE, val |-> x]
Raise(x) == [raised |-> TRUE, val |-> x]

-----------------------------------------------------------------------------
(* update_panel_queries                                                    *)

NamespaceFilter == "{namespace=\"$namespace\", instance=~\"$instance\"}"

\* lines 284-287: the "No existing filters" branch
inject_after_metric_name(expr) ==
    LET Last(paren_parts) == paren_parts[Len(paren_parts)]                \* [-1]
        Inject(metric_name) == Replace(expr, metric_name, metric_name \o NamespaceFilter)
        Branch(metric_parts) ==
            IF Len(metric_parts) > 0
            THEN Inject(Strip(Last(Split(metric_parts[1], "("))))
            ELSE expr
    IN  Branch(Split(expr, "["))

\* lines 282-287: if "{" not in expr, the filter goes after the metric name
no_existing_filters(expr) == IF ~Contains(expr, "{") THEN inject_after_metric_name(expr) ELSE expr

\* mutant: the filter goes only into an existing selector
add_namespace_filter_selector_only(expr) ==
    IF ~Contains(expr, "namespace=") /\ Contains(expr, "birthday_scheduler_")
    THEN ReplaceN(expr, "{", "{namespace=\"$namespace\", instance=~\"$instance\", ", 1)
    ELSE expr

\* mutant: no test for a namespace filter that is already there
add_namespace_filter_unguarded(expr) ==
    IF Contains(expr, "birthday_scheduler_")
    THEN no_existing_filters(
             ReplaceN(expr, "{", "{namespace=\"$namespace\", instance=~\"$instance\", ", 1))
    ELSE expr

\* lines 279-287: "Add namespace filter if not present"
add_namespace_filter(expr) ==
    IF ~Contains(expr, "namespace=") /\ Contains(expr, "birthday_scheduler_")
    THEN no_existing_filters(
             ReplaceN(ReplaceN(expr, "birthday_scheduler_", "birthday_scheduler_", 1),
                      "{", "{namespace=\"$namespace\", instance=~\"$instance\", ", 1))
    ELSE expr

\* line 290: "Replace [5m] with [$interval] for flexibility"
replace_interval(expr) == Replace(expr, "[5m]", "[$interval]")

\* lines 276-292: the new value of target["expr"]
rewrite_expr(expr) == replace_interval(add_namespace_filter(expr))

\* lines 295-296: "Add refId if missing"
add_refId(target) == IF Has(target, "refId") THEN target ELSE Put(target, "refId", JStr("A"))

\* lines 275-296: the body of the loop over targets, for one target
update_target(target) ==
    CASE target.t \in {"null", "bool", "num"} -> Raise(target)   \* "expr" in target
      [] target.t = "str" ->                                     \* target["expr"]
            IF Contains(target.s, "expr") THEN Raise(target) ELSE Ok(target)
      [] target.t = "list" ->
            IF \E i \in 1..Len(target.l) : target.l[i] = JStr("expr")
            THEN Raise(target) ELSE Ok(target)
      [] target.t = "dict" ->
            IF ~Has(target, "expr") THEN Ok(target)
            ELSE LET expr == target.d["expr"] IN
                 IF expr.t # "str" THEN Raise(target)            \* in / replace on a non-str
                 ELSE Ok(add_refId(Put(target, "expr", JStr(rewrite_expr(expr.s)))))

\* an item is done; r is the outcome of the loop over the items after it
Prepend(item, r) == [raised |-> r.raised, val |-> <<item>> \o r.val]

\* the outcome of a loop over a list, as an outcome on the list object
OnList(r) == [raised |-> r.raised, val |-> JList(r.val)]

HasExprKey(target) == target.t = "dict" /\ Has(target, "expr")

\* mutant: the list is rebuilt from the targets that carry an expr
update_targets_only_expr(ts) ==
    LET Updated(kept) == [i \in 1..Len(kept) |-> update_target(kept[i]).val]
    IN  Ok(Updated(SelectSeq(ts, HasExprKey)))

RECURSIVE update_targets(_)
\* line 274: for target in <a list>; stops at the first target that raises
update_targets(ts) ==
    IF ts = <<>> THEN Ok(<<>>)
    ELSE LET Then(h) == IF h.raised THEN Raise(ts)
                        ELSE Prepend(h.val, update_targets(Tail(ts)))
         IN  Then(update_target(Head(ts)))

\* lines 273-274: for target in panel["targets"], whatever panel["targets"] is.
\* Iterating a str gives one-character strings, on which the loop body does
\* nothing; iterating a dict gives its keys.
walk_targets(targets) ==
    CASE targets.t \in {"null", "bool", "num"} -> Raise(targets)
      [] targets.t = "str" -> Ok(targets)
      [] targets.t = "dict" ->
            IF \E k \in DOMAIN targets.d : Contains(k, "expr")
            THEN Raise(targets) ELSE Ok(targets)
      [] targets.t = "list" ->
            OnList(update_targets(targets.l))

\* line 300: the generated description
default_description(panel) ==
    "Panel " \o PyStr(Get(panel, "id", JStr(""))) \o ": "
             \o PyStr(Get(panel, "title", JStr("No title")))

\* mutant: the description is generated for every panel
add_description_always(panel) ==
    Put(panel, "description", JStr(default_description(panel)))

\* lines 299-300: "Add description if missing"
add_description(panel) ==
    IF ~Has(panel, "description") \/ Falsy(panel.d["description"])
    THEN Put(panel, "description", JStr(default_description(panel)))
    ELSE panel

\* lines 272-300: the body of the loop over panels, for one panel.  A panel
\* that is no dict raises: at the 'in' test, at panel[...] or at the assignment.
update_panel(panel) ==
    IF panel.t # "dict" THEN Raise(panel)
    ELSE IF ~Has(panel, "targets") THEN Ok(add_description(panel))
    ELSE LET Then(raised, walked) ==
                 IF raised THEN Raise(walked) ELSE Ok(add_description(walked))
             Walked(r) == Then(r.raised, Put(panel, "targets", r.val))
         IN  Walked(walk_targets(panel.d["targets"]))

RECURSIVE update_panels(_)
\* line 271: for panel in <a list>; stops at the first panel that raises
update_panels(ps) ==
    IF ps = <<>> THEN Ok(<<>>)
    ELSE LET Then(h) == IF h.raised THEN Raise(<<h.val>> \o Tail(ps))
                        ELSE Prepend(h.val, update_panels(Tail(ps)))
         IN  Then(update_panel(Head(ps)))

\* lines 269-300.  The argument is mutated in place: val is the argument after
\* the call, also when the call raised part of the way.
update_panel_queries(panels) ==
    CASE panels.t \in {"null", "bool", "num"} -> Raise(panels)          \* not iterable
      [] panels.t = "str" -> IF panels.s = "" THEN Ok(panels) ELSE Raise(panels)
      [] panels.t = "dict" -> IF DOMAIN panels.d = {} THEN Ok(panels) ELSE Raise(panels)
      [] panels.t = "list" ->
            OnList(update_panels(panels.l))

-----------------------------------------------------------------------------
(* The configuration table, lines 12-133.                                  *)

QueryVariable(name, query, label, description) ==
    JDict([name |-> JStr(name), type |-> JStr("query"), query |-> JStr(query),
           label |-> JStr(label), description |-> JStr(description),
           includeAll |-> JBool(TRUE), multi |-> JBool(TRUE)])

DrillDown(title, url, tooltip) ==
    JDict([title |-> JStr(title), url |-> JStr(url), tooltip |-> JStr(tooltip)])

Config(specific_variables, drill_down_links, alert_filter) ==
    JDict([specific_variables |-> JList(specific_variables),
           drill_down_links |-> JList(drill_down_links),
           alert_filter |-> JStr(alert_filter)])

OverviewReturn ==
    DrillDown("Overview Dashboard",
              "/d/overview?var-namespace=$namespace&from=$__from&to=$__to",
              "Return to overview dashboard")

\* the keys of DASHBOARD_CONFIGS in the order .items() yields them
ConfigOrder ==
    <<"message-processing.json", "database.json", "infrastructure.json",
      "overview-dashboard.json", "security.json">>

DASHBOARD_CONFIGS ==
    ("message-processing.json" :> Config(
        <<QueryVariable("queue",
            "label_values(birthday_scheduler_queue_depth{namespace=\"$namespace\", instance=~\"$instance\"}, queue_name)",
            "Queue", "Filter by queue name")>>,
        <<DrillDown("Database Dashboard",
            "/d/database?var-namespace=$namespace&var-instance=$instance&from=$__from&to=$__to",
            "View database metrics for queue persistence"),
          OverviewReturn>>,
        "QueueDepthCritical|DLQMessagesPresent|HighMessageRetryRate|MessageProcessingSlow|MessageDeliveryRate|MessageSuccessRate"))
    @@ ("database.json" :> Config(
        <<QueryVariable("table",
            "label_values(birthday_scheduler_database_query_duration_seconds_bucket{namespace=\"$namespace\", instance=~\"$instance\"}, table)",
            "Table", "Filter by table name")>>,
        <<DrillDown("Infrastructure Dashboard",
            "/d/infrastructure?var-namespace=$namespace&var-instance=$instance&from=$__from&to=$__to",
            "View system resource impact on database"),
          OverviewReturn>>,
        "DBConnectionPoolExhausted|DatabaseDown|DBConnectionPoolHigh|SlowQueries|DatabaseQueryLatency"))
    @@ ("infrastructure.json" :> Config(
        <<QueryVariable("node",
            "label_values(birthday_scheduler_process_cpu_seconds_total{namespace=\"$namespace\"}, instance)",
            "Node", "Filter by node/server")>>,
        <<OverviewReturn>>,
        "ServiceDown|MemoryExhausted|CPUUsageHigh|MemoryUsageHigh|EventLoopLagHigh|HighGCPauseTime"))
    @@ ("overview-dashboard.json" :> Config(
        <<>>,
        <<DrillDown("API Performance",
            "/d/api-performance?var-namespace=$namespace&from=$__from&to=$__to",
            "View detailed API metrics"),
          DrillDown("Message Processing",
            "/d/message-processing?var-namespace=$namespace&from=$__from&to=$__to",
            "View message queue metrics"),
          DrillDown("Database",
            "/d/database?var-namespace=$namespace&from=$__from&to=$__to",
            "View database performance"),
          DrillDown("Infrastructure",
            "/d/infrastructure?var-namespace=$namespace&from=$__from&to=$__to",
            "View infrastructure health"),
          DrillDown("Security",
            "/d/security?var-namespace=$namespace&from=$__from&to=$__to",
            "View security metrics")>>,
        ".*"))
    @@ ("security.json" :> Config(
        <<>>,
        <<OverviewReturn,
          DrillDown("API Performance",
            "/d/api-performance?var-namespace=$namespace&from=$__from&to=$__to",
            "View API security details")>>,
        "SecurityBreach|UnauthorizedAccess|HighFailedLogins|RateLimitExceeded"))

-----------------------------------------------------------------------------
(* get_common_variables, create_annotations, create_links                  *)

Current(text, value) == JDict([text |-> JStr(text), value |-> JStr(value)])

IntervalOption(text, selected) ==
    JDict([text |-> JStr(text), value |-> JStr(text), selected |-> JBool(selected)])

\* lines 135-203
get_common_variables ==
    << JDict([name |-> JStr("datasource"), type |-> JStr("datasource"),
              query |-> JStr("prometheus"), current |-> Current("Prometheus", "Prometheus"),
              hide |-> JNum(0), includeAll |-> JBool(FALSE), multi |-> JBool(FALSE),
              options |-> JList(<<>>), refresh |-> JNum(1), regex |-> JStr(""),
              skipUrlSync |-> JBool(FALSE)]),
       JDict([name |-> JStr("namespace"), type |-> JStr("query"),
              datasource |-> JStr("${datasource}"),
              query |-> JStr("label_values(birthday_scheduler_api_requests_total, namespace)"),
              current |-> Current("production", "production"),
              hide |-> JNum(0), includeAll |-> JBool(FALSE), multi |-> JBool(FALSE),
              options |-> JList(<<>>), refresh |-> JNum(1), regex |-> JStr(""),
              skipUrlSync |-> JBool(FALSE), sort |-> JNum(1), label |-> JStr("Namespace"),
              description |-> JStr("Kubernetes namespace filter")]),
       JDict([name |-> JStr("instance"), type |-> JStr("query"),
              datasource |-> JStr("${datasource}"),
              query |-> JStr("label_values(birthday_scheduler_api_requests_total{namespace=\"$namespace\"}, instance)"),
              current |-> Current("All", "$__all"),
              hide |-> JNum(0), includeAll |-> JBool(TRUE), multi |-> JBool(TRUE),
              options |-> JList(<<>>), refresh |-> JNum(1), regex |-> JStr(""),
              skipUrlSync |-> JBool(FALSE), sort |-> JNum(1), label |-> JStr("Instance"),
              description |-> JStr("Filter by instance/pod")]),
       JDict([name |-> JStr("interval"), type |-> JStr("interval"),
              query |-> JStr("1m,5m,10m,30m,1h"), current |-> Current("5m", "5m"),
              hide |-> JNum(0), includeAll |-> JBool(FALSE), multi |-> JBool(FALSE),
              options |-> JList(<<IntervalOption("1m", FALSE), IntervalOption("5m", TRUE),
                                  IntervalOption("10m", FALSE), IntervalOption("30m", FALSE),
                                  IntervalOption("1h", FALSE)>>),
              label |-> JStr("Interval"), description |-> JStr("Time aggregation interval")]) >>

\* lines 205-221; alert_filter is a str
create_annotations(alert_filter) ==
    JDict([list |-> JList(<<
        JDict([datasource |-> JStr("${datasource}"),
               enable |-> JBool(TRUE),
               expr |-> JStr("ALERTS{alertname=~\"" \o alert_filter
                             \o "\", namespace=\"$namespace\"}"),
               iconColor |-> JStr("rgba(255, 96, 96, 1)"),
               name |-> JStr("Alerts"),
               step |-> JStr("60s"),
               tagKeys |-> JStr("alertname,severity"),
               textFormat |-> JStr("{{alertname}}: {{severity}}"),
               titleFormat |-> JStr("Alert")])>>)])

\* lines 223-235; drill_down_config is a list of dicts
create_links(drill_down_config) ==
    JList([i \in 1..Len(drill_down_config) |->
        LET link == drill_down_config[i] IN
        JDict([title |-> link.d["title"],
               url |-> link.d["url"],
               icon |-> JStr("dashboard"),
               tooltip |-> link.d["tooltip"],
               type |-> JStr("link"),
               targetBlank |-> JBool(FALSE)])])

-----------------------------------------------------------------------------
(* Inputs of update_panel_queries.                                         *)

SeqsUpTo(S, n) == UNION {[1..k -> S] : k \in 0..n}

RECURSIVE Wrap(_, _)
\* k function calls around an operand
Wrap(k, s) == IF k = 0 THEN s ELSE "rate(" \o Wrap(k - 1, s) \o ")"

Metrics == {"birthday_scheduler_a", "birthday_scheduler_ab", "m"}
Selectors == {"", "{job=\"x\"}", "{namespace=\"x\"}"}
Ranges == {"", "[5m]", "[1h]"}

\* metric, selector, range, inside up to MaxWrap function calls
Operands ==
    {Wrap(k, m \o sel \o r) : k \in 0..MaxWrap, m \in Metrics, sel \in Selectors, r \in Ranges}

\* one operand, or a binary expression of two
Exprs == Operands \cup {a \o " / " \o b : a \in Operands, b \in Operands}

\* a panel list holding one panel with one target with the given expr
ExprPanels(e) ==
    JList(<<JDict([id |-> JNum(1), title |-> JStr("Rate"),
                   targets |-> JList(<<JDict([expr |-> JStr(e)])>>)])>>)

TargetKinds ==
    { JDict([expr |-> JStr("up"), refId |-> JStr("B")]),
      JDict([expr |-> JStr("rate(birthday_scheduler_a[5m])"), legendFormat |-> JStr("{{queue}}")]),
      JDict([legendFormat |-> JStr("x")]),
      JDict([expr |-> JNum(1)]) }

TargetLists == SeqsUpTo(TargetKinds, MaxTargets)

PanelMetas ==
    { EmptyDict,
      JDict([id |-> JNum(7)]),
      JDict([id |-> JNum(12), title |-> JStr("Queue depth"), description |-> JStr("")]),
      JDict([id |-> JNum(3), title |-> JStr("DLQ"), description |-> JStr("Dead letters")]) }

\* the panels whose targets vary
RichPanels ==
    PanelMetas \cup {Put(m, "targets", JList(ts)) : m \in PanelMetas, ts \in TargetLists}

\* the panels that follow them: one without title and targets, one with null
\* targets, a null
PlainPanels ==
    { JDict([id |-> JNum(4), type |-> JStr("stat")]),
      JDict([id |-> JNum(5), description |-> JStr("d"), targets |-> JNull]),
      JNull }

ShapePanels ==
    {JList(<<p>> \o rest) : p \in RichPanels, rest \in SeqsUpTo(PlainPanels, MaxPanels - 1)}

\* what dashboard.get("panels", []) can be besides a list of dicts
OddPanels == {JList(<<>>), JNull, JStr(""), JStr("x"), EmptyDict, JDict([a |-> JNull])}

UpqInputs == {ExprPanels(e) : e \in Exprs} \cup ShapePanels \cup OddPanels

-----------------------------------------------------------------------------
(* update_panel_queries on its own: called MaxRuns times on one argument.  *)

IdleMain ==
    /\ dirExists = FALSE
    /\ disk = <<>>
    /\ disk0 = <<>>
    /\ pc = "idle"
    /\ idx = 0
    /\ out = <<>>

IdleEnh ==
    /\ enhCfg = ""
    /\ enhFile = [kind |-> "missing"]
    /\ enhPrev = [kind |-> "missing"]
    /\ enhLog = <<>>

IdleUpq ==
    /\ upqPanels = JNull
    /\ upqPrev = JNull
    /\ upqLog = <<>>

InitUpq ==
    /\ IdleMain
    /\ IdleEnh
    /\ upqPanels \in UpqInputs
    /\ upqPrev = upqPanels
    /\ upqLog = <<>>

\* one call update_panel_queries(upqPanels, name)
UpqCall ==
    /\ Len(upqLog) < MaxRuns
    /\ LET Called(r) ==
                /\ upqPanels' = r.val
                /\ upqPrev' = upqPanels
                /\ upqLog' = Append(upqLog, r.raised)
       IN  Called(update_panel_queries(upqPanels))
    /\ UNCHANGED <<mainVars, enhVars>>

NextUpq == UpqCall

SpecUpq == InitUpq /\ [][NextUpq]_vars

-----------------------------------------------------------------------------
(* What a call of update_panel_queries did: the argument before (upqPrev)  *)
(* and after (upqPanels) the latest call.                                  *)

UpqReturned == upqLog # <<>> /\ ~upqLog[Len(upqLog)]

\* the targets that carry an expr, as <<panel index, target index>>
UpqExprTargets ==
    IF upqPrev.t # "list" THEN {}
    ELSE UNION { LET p == upqPrev.l[i] IN
                 IF p.t = "dict" /\ Has(p, "targets") /\ p.d["targets"].t = "list"
                 THEN {<<i, j>> : j \in {k \in 1..Len(p.d["targets"].l) :
                                           /\ p.d["targets"].l[k].t = "dict"
                                           /\ Has(p.d["targets"].l[k], "expr")}}
                 ELSE {}
               : i \in 1..Len(upqPrev.l) }

\* the positions of the argument, when it is a list
UpqPanelIndices == IF upqPrev.t = "list" THEN 1..Len(upqPrev.l) ELSE {}

TargetBefore(ij) == upqPrev.l[ij[1]].d["targets"].l[ij[2]]
TargetAfter(ij) == upqPanels.l[ij[1]].d["targets"].l[ij[2]]
ExprBefore(ij) == TargetBefore(ij).d["expr"].s
ExprAfter(ij) == TargetAfter(ij).d["expr"].s

Count(s, p) == Cardinality(Occurrences(s, p, 1))

IdentChars ==
    {SubSeq("abcdefghijklmnopqrstuvwxyzABCDEFGHIJKLMNOPQRSTUVWXYZ0123456789_:", k, k) : k \in 1..64}

HasPrefix(s, p) == Len(s) >= Len(p) /\ SubSeq(s, 1, Len(p)) = p

IsIdentAt(s, k) == k >= 1 /\ k <= Len(s) /\ SubSeq(s, k, k) \in IdentChars

\* the identifier of s that ends at index k: it starts where the run of
\* identifier characters ending at k starts
IdentEndingAt(s, k) ==
    LET starts == {i \in 1..k : \A n \in i..k : IsIdentAt(s, n)} IN
    IF starts = {} THEN ""
    ELSE SubSeq(s, CHOOSE i \in starts : \A n \in starts : i <= n, k)

\* the selector at index j of s directly follows a complete
\* birthday_scheduler_ metric identifier
AttachedToMetric(s, j) ==
    /\ HasPrefix(IdentEndingAt(s, j - 1), "birthday_scheduler_")
    /\ ~IsIdentAt(s, j + Len(NamespaceFilter))

\* C5: after update_panel_queries every expr that mentions birthday_scheduler_
\* contains namespace=, and an expr that did not mention birthday_scheduler_
\* or already contained namespace= is changed by the [5m] substitution alone.
C5_NamespaceFilter ==
    UpqReturned =>
        \A ij \in UpqExprTargets :
            LET b == ExprBefore(ij)
                a == ExprAfter(ij)
            IN  /\ Contains(b, "birthday_scheduler_") => Contains(a, "namespace=")
                /\ Contains(a, "birthday_scheduler_") => Contains(a, "namespace=")
                /\ (~Contains(b, "birthday_scheduler_") \/ Contains(b, "namespace="))
                      => /\ a = Replace(b, "[5m]", "[$interval]")
                         /\ Count(a, NamespaceFilter) = Count(b, NamespaceFilter)

\* a first call returned, on an expr that mentioned the metric without a
\* namespace filter and now has one
C5_Witness ==
    /\ UpqReturned
    /\ Len(upqLog) = 1
    /\ \E ij \in UpqExprTargets :
          /\ Contains(ExprBefore(ij), "birthday_scheduler_")
          /\ ~Contains(ExprBefore(ij), "namespace=")
          /\ Contains(ExprAfter(ij), "namespace=")

\* C6: after update_panel_queries no expr contains [5m], every former [5m]
\* reads [$interval], and the windows of other durations are as they were.
C6_IntervalVariable ==
    UpqReturned =>
        \A ij \in UpqExprTargets :
            LET b == ExprBefore(ij)
                a == ExprAfter(ij)
            IN  /\ ~Contains(a, "[5m]")
                /\ Count(a, "[$interval]") = Count(b, "[$interval]") + Count(b, "[5m]")
                /\ Count(a, "[1h]") = Count(b, "[1h]")

\* C7: in the 'No existing filters' branch the selector goes directly after
\* a complete birthday_scheduler_ metric identifier and nothing else changes.
C7_SelectorOnMetricName ==
    UpqReturned =>
        \A ij \in UpqExprTargets :
            LET b == ExprBefore(ij)
                a == ExprAfter(ij)
            IN  (/\ Contains(b, "birthday_scheduler_")
                 /\ ~Contains(b, "namespace=")
                 /\ ~Contains(b, "{"))
                => /\ Occurrences(a, NamespaceFilter, 1) # {}
                   /\ \A j \in Occurrences(a, NamespaceFilter, 1) : AttachedToMetric(a, j)
                   /\ Replace(a, NamespaceFilter, "") = Replace(b, "[5m]", "[$interval]")


\* C8: after update_panel_queries every panel has a non-empty description and
\* every target with an expr a refId; a non-empty description and a present
\* refId are kept; a missing or empty description becomes
\* 'Panel <id>: <title>', with 'No title' for a panel without title.
C8_DescriptionAndRefId ==
    UpqReturned =>
        /\ \A i \in UpqPanelIndices :
              LET b == upqPrev.l[i]
                  a == upqPanels.l[i]
                  kept == Has(b, "description") /\ ~Falsy(b.d["description"])
              IN  /\ Has(a, "description")
                  /\ ~Falsy(a.d["description"])
                  /\ kept => a.d["description"] = b.d["description"]
                  /\ ~kept => a.d["description"] =
                        JStr("Panel " \o (IF Has(b, "id") THEN PyStr(b.d["id"]) ELSE "")
                             \o ": " \o (IF Has(b, "title") THEN b.d["title"].s ELSE "No title"))
        /\ \A ij \in UpqExprTargets :
              /\ Has(TargetAfter(ij), "refId")
              /\ Has(TargetBefore(ij), "refId")
                    => TargetAfter(ij).d["refId"] = TargetBefore(ij).d["refId"]

\* a first call returned on a list with a panel whose empty description was
\* generated, a panel that kept its own, a target that got refId A and a
\* target that kept refId B
C8_Witness ==
    /\ UpqReturned
    /\ Len(upqLog) = 1
    /\ \E i \in UpqPanelIndices :
          /\ Has(upqPrev.l[i], "description")
          /\ upqPrev.l[i].d["description"] = JStr("")
          /\ upqPanels.l[i].d["description"] = JStr("Panel 12: Queue depth")
          /\ \E ij \in UpqExprTargets :
                ij[1] = i /\ ~Has(TargetBefore(ij), "refId") /\ TargetAfter(ij).d["refId"] = JStr("A")
          /\ \E ij \in UpqExprTargets :
                ij[1] = i /\ Has(TargetBefore(ij), "refId") /\ TargetAfter(ij).d["refId"] = JStr("B")
    /\ \E i \in UpqPanelIndices :
          /\ ~Has(upqPrev.l[i], "title")
          /\ ~Has(upqPrev.l[i], "description")
          /\ upqPanels.l[i].d["description"] = JStr("Panel 4: No title")


-----------------------------------------------------------------------------
(* enhance_dashboard                                                       *)
(*                                                                         *)
(* A file's content is [kind |-> "json", doc |-> the JSON value it holds], *)
(* [kind |-> "garbage"] (text json.load rejects), [kind |-> "partial"]     *)
(* (what a write that was cut short leaves: open(path, 'w') has truncated  *)
(* the file and json.dump has written none or some of its chunks), or      *)
(* [kind |-> "missing"].                                                   *)

Json(doc) == [kind |-> "json", doc |-> doc]
Garbage == [kind |-> "garbage"]
Partial == [kind |-> "partial"]
Missing == [kind |-> "missing"]

\* what the write-back of lines 264-265 meets: it goes through, open() raises
\* (the file is untouched), or json.dump raises after open() truncated the file
IoOutcomes == {"ok", "open_fails", "dump_fails"}

\* mutant: without a 'dashboard' key the document itself is taken as the dashboard
load_dashboard_fallback(data) == Get(data, "dashboard", data)

\* line 244
load_dashboard(data) == Get(data, "dashboard", EmptyDict)

\* mutant: the variables are appended to the list the document has
add_templating_extend(dashboard, config) ==
    Put(dashboard, "templating",
        JDict([list |-> JList((IF Has(dashboard, "templating")
                               THEN dashboard.d["templating"].d["list"].l ELSE <<>>)
                              \o get_common_variables
                              \o Get(config, "specific_variables", JList(<<>>)).l)]))

\* lines 247-250
add_templating(dashboard, config) ==
    Put(dashboard, "templating",
        JDict([list |-> JList(get_common_variables
                              \o Get(config, "specific_variables", JList(<<>>)).l)]))

\* line 253
add_links(dashboard, config) ==
    Put(dashboard, "links", create_links(config.d["drill_down_links"].l))

\* line 256
add_annotations(dashboard, config) ==
    Put(dashboard, "annotations", create_annotations(config.d["alert_filter"].s))

\* lines 264-265: the file after the write-back of data
write_back(content, data, io) ==
    CASE io = "ok" -> Json(data)
      [] io = "open_fails" -> content
      [] io = "dump_fails" -> Partial

\* lines 237-267: [raised, file]: whether the call raised and the file's
\* content after it
enhance_dashboard(content, config, io) ==
    LET Failed == [raised |-> TRUE, file |-> content]
        \* lines 262-265, after the panel walk left the dashboard as walked
        Save(data, walked) ==
            [raised |-> io # "ok",
             file |-> write_back(content, Put(data, "dashboard", walked), io)]
        \* line 259: the panels are mutated in place, inside the dashboard
        Walk(data, merged, walk) ==
            IF walk.raised THEN Failed
            ELSE Save(data, IF Has(merged, "panels") THEN Put(merged, "panels", walk.val)
                            ELSE merged)
        Merged(data, merged) ==
            Walk(data, merged, update_panel_queries(Get(merged, "panels", JList(<<>>))))
        \* lines 247-256
        Merge(data, dashboard) ==
            IF dashboard.t # "dict" THEN Failed                  \* dashboard["templating"] =
            ELSE Merged(data, add_annotations(add_links(add_templating(dashboard, config),
                                                        config), config))
        \* line 244
        Loaded(data) ==
            IF data.t # "dict" THEN Failed                       \* data.get
            ELSE Merge(data, load_dashboard(data))
    IN  IF content.kind # "json" THEN Failed                     \* open / json.load
        ELSE Loaded(content.doc)

-----------------------------------------------------------------------------
(* Inputs of enhance_dashboard.                                            *)

EnhPanels ==
    { JDict([id |-> JNum(1), title |-> JStr("Rate"), type |-> JStr("graph"),
             targets |-> JList(<<JDict([expr |-> JStr("rate(birthday_scheduler_a[5m])")]),
                                 JDict([legendFormat |-> JStr("x")])>>)]),
      JDict([id |-> JNum(2), description |-> JStr("d"),
             targets |-> JList(<<JDict([expr |-> JStr("up"), refId |-> JStr("B")]),
                                 JDict([expr |-> JStr("birthday_scheduler_a{job=\"x\"}")])>>)]),
      JDict([id |-> JNum(3), targets |-> JNull]) }

EnhPanelValues == {JList(ps) : ps \in SeqsUpTo(EnhPanels, MaxPanels)} \cup {JNull}

\* a dashboard without and with the three sub-structures already in it
EnhDashboardBases ==
    { JDict([title |-> JStr("Queues")]),
      JDict([title |-> JStr("Queues"), uid |-> JStr("q1"),
             templating |-> JDict([list |-> JList(<<JDict([name |-> JStr("old")])>>)]),
             links |-> JList(<<JDict([title |-> JStr("Old link")])>>),
             annotations |-> JDict([list |-> JList(<<>>)])]) }

EnhDashboards ==
    EnhDashboardBases \cup {Put(d, "panels", ps) : d \in EnhDashboardBases, ps \in EnhPanelValues}
        \cup {JNull}

\* the rest of the document: nothing, or a meta key and a top-level panel list
EnhTops ==
    { EmptyDict,
      JDict([meta |-> JStr("v1"),
             panels |-> JList(<<JDict([id |-> JNum(9),
                                       targets |-> JList(<<JDict([expr |->
                                           JStr("rate(birthday_scheduler_a[5m])")])>>)])>>)]) }

\* a dashboard whose one panel has one target, with each single-operand expr
EnhExprContents ==
    {Json(JDict([dashboard |-> JDict([title |-> JStr("Queues"), panels |-> ExprPanels(e)])])) :
        e \in Operands}

EnhContents ==
    {Json(top) : top \in EnhTops}
        \cup {Json(Put(top, "dashboard", d)) : top \in EnhTops, d \in EnhDashboards}
        \cup EnhExprContents
        \cup {Json(JList(<<>>)), Garbage}

-----------------------------------------------------------------------------
(* enhance_dashboard on its own: called MaxRuns times on one file.         *)

InitEnh ==
    /\ IdleMain
    /\ IdleUpq
    /\ enhCfg \in DOMAIN DASHBOARD_CONFIGS
    /\ enhFile \in EnhContents
    /\ enhPrev = enhFile
    /\ enhLog = <<>>

\* one call enhance_dashboard(path, DASHBOARD_CONFIGS[enhCfg])
EnhCall ==
    /\ Len(enhLog) < MaxRuns
    /\ \E io \in IoOutcomes :
         LET Called(r) ==
                 /\ enhFile' = r.file
                 /\ enhPrev' = enhFile
                 /\ enhLog' = Append(enhLog, [io |-> io, raised |-> r.raised])
         IN  Called(enhance_dashboard(enhFile, DASHBOARD_CONFIGS[enhCfg], io))
    /\ UNCHANGED <<enhCfg, mainVars, upqVars>>

NextEnh == EnhCall

SpecEnh == InitEnh /\ [][NextEnh]_vars


-----------------------------------------------------------------------------
(* What a call of enhance_dashboard did: the file before (enhPrev) and     *)
(* after (enhFile) the latest call.                                        *)

EnhLast == enhLog[Len(enhLog)]
EnhReturned == enhLog # <<>> /\ ~EnhLast.raised

DocBefore == enhPrev.doc
DocAfter == enhFile.doc
DashboardBefore == Get(DocBefore, "dashboard", EmptyDict)
DashboardAfter == DocAfter.d["dashboard"]
EnhConfig == DASHBOARD_CONFIGS[enhCfg].d

Injected == {"templating", "links", "annotations"}

\* C3: after a successful enhance_dashboard the templating list is the four
\* common variables datasource, namespace, instance, interval followed by the
\* file's specific variables in table order, links is one link per configured
\* drill-down entry in table order, and annotations is one 'Alerts' annotation
\* whose expr carries the file's alert filter: what the document held is replaced.
C3_InjectedFromConfig ==
    EnhReturned =>
        LET vars_ == DashboardAfter.d["templating"].d["list"].l
            specific == EnhConfig["specific_variables"].l
            links == DashboardAfter.d["links"].l
            drill == EnhConfig["drill_down_links"].l
            annotations == DashboardAfter.d["annotations"].d["list"].l
        IN  /\ DOMAIN DashboardAfter.d["templating"].d = {"list"}
            /\ Len(vars_) = 4 + Len(specific)
            /\ [i \in 1..4 |-> vars_[i].d["name"].s]
                  = <<"datasource", "namespace", "instance", "interval">>
            /\ SubSeq(vars_, 1, 4) = get_common_variables
            /\ SubSeq(vars_, 5, Len(vars_)) = specific
            /\ Len(links) = Len(drill)
            /\ \A i \in 1..Len(drill) :
                  /\ links[i].d["title"] = drill[i].d["title"]
                  /\ links[i].d["url"] = drill[i].d["url"]
                  /\ links[i].d["tooltip"] = drill[i].d["tooltip"]
                  /\ links[i].d["type"] = JStr("link")
            /\ DOMAIN DashboardAfter.d["annotations"].d = {"list"}
            /\ Len(annotations) = 1
            /\ annotations[1].d["name"] = JStr("Alerts")
            /\ Contains(annotations[1].d["expr"].s,
                        "alertname=~\"" \o EnhConfig["alert_filter"].s \o "\"")

\* a call returned on a dashboard that held other variables, links and
\* annotations, for a file with a specific variable
C3_Witness ==
    /\ EnhReturned
    /\ Len(enhLog) = 1
    /\ EnhConfig["specific_variables"].l # <<>>
    /\ Has(DashboardBefore, "templating")
    /\ DashboardBefore.d["templating"] # DashboardAfter.d["templating"]
    /\ DashboardBefore.d["links"] # DashboardAfter.d["links"]
    /\ DashboardBefore.d["annotations"] # DashboardAfter.d["annotations"]

\* the keys a target may differ in: expr, and refId when it had none
TargetFrame(b, a) ==
    IF b.t = "dict" /\ Has(b, "expr")
    THEN /\ a.t = "dict"
         /\ DOMAIN a.d = DOMAIN b.d \cup {"refId"}
         /\ \A k \in DOMAIN b.d \ {"expr"} : a.d[k] = b.d[k]
    ELSE a = b

\* the keys a panel may differ in: description when it had none or an empty
\* one, and inside its targets what TargetFrame allows
PanelFrame(b, a) ==
    /\ a.t = "dict"
    /\ DOMAIN a.d = DOMAIN b.d \cup {"description"}
    /\ \A k \in DOMAIN b.d \ {"targets", "description"} : a.d[k] = b.d[k]
    /\ (Has(b, "description") /\ ~Falsy(b.d["description"]))
          => a.d["description"] = b.d["description"]
    /\ Has(b, "targets") =>
          IF b.d["targets"].t = "list"
          THEN /\ a.d["targets"].t = "list"
               /\ Len(a.d["targets"].l) = Len(b.d["targets"].l)
               /\ \A j \in 1..Len(b.d["targets"].l) :
                     TargetFrame(b.d["targets"].l[j], a.d["targets"].l[j])
          ELSE a.d["targets"] = b.d["targets"]

\* C4: enhance_dashboard changes only the dashboard's templating, links and
\* annotations and, in top-level panels, a target's expr, a target's missing
\* refId and a panel's missing or empty description; every other key of the
\* document and of the dashboard, and the number and order of panels and of
\* targets, are in the written file as they were in the loaded one.
C4_Frame ==
    EnhReturned =>
        /\ enhFile.kind = "json"
        /\ DOMAIN DocAfter.d = DOMAIN DocBefore.d \cup {"dashboard"}
        /\ \A k \in DOMAIN DocBefore.d \ {"dashboard"} : DocAfter.d[k] = DocBefore.d[k]
        /\ DOMAIN DashboardAfter.d = DOMAIN DashboardBefore.d \cup Injected
        /\ \A k \in DOMAIN DashboardBefore.d \ (Injected \cup {"panels"}) :
              DashboardAfter.d[k] = DashboardBefore.d[k]
        /\ Has(DashboardBefore, "panels") =>
              LET pb == DashboardBefore.d["panels"]
                  pa == DashboardAfter.d["panels"]
              IN  IF pb.t = "list"
                  THEN /\ pa.t = "list"
                       /\ Len(pa.l) = Len(pb.l)
                       /\ \A i \in 1..Len(pb.l) : PanelFrame(pb.l[i], pa.l[i])
                  ELSE pa = pb

\* a call returned on a document with a meta key, a dashboard with a uid and
\* two panels, one of them with a target without expr
C4_Witness ==
    /\ EnhReturned
    /\ Len(enhLog) = 1
    /\ Has(DocBefore, "meta")
    /\ Has(DashboardBefore, "uid")
    /\ Has(DashboardBefore, "panels")
    /\ DashboardBefore.d["panels"].t = "list"
    /\ Len(DashboardBefore.d["panels"].l) = 2
    /\ \E i \in 1..2 : \E j \in 1..2 :
          ~Has(DashboardBefore.d["panels"].l[i].d["targets"].l[j], "expr")
    /\ DashboardAfter.d["panels"] # DashboardBefore.d["panels"]

\* C9: enhance_dashboard is idempotent: a second successful call on the
\* written result, with the same configuration entry, writes the same document.
C9_Idempotent ==
    (/\ Len(enhLog) >= 2
     /\ ~enhLog[Len(enhLog)].raised
     /\ ~enhLog[Len(enhLog) - 1].raised)
    => enhFile = enhPrev

\* two calls in a row returned, on a dashboard whose panels got a filter, an
\* interval variable, a refId and a description in the first
C9_Witness ==
    /\ Len(enhLog) = 2
    /\ ~enhLog[1].raised
    /\ ~enhLog[2].raised
    /\ Has(DashboardBefore, "panels")
    /\ \E i \in 1..Len(DashboardAfter.d["panels"].l) :
          LET p == DashboardAfter.d["panels"].l[i] IN
          /\ p.d["description"] = JStr("Panel 1: Rate")
          /\ p.d["targets"].l[1].d["refId"] = JStr("A")
          /\ p.d["targets"].l[1].d["expr"] =
                JStr("rate(birthday_scheduler_a" \o NamespaceFilter \o "[$interval])")

\* C10: for a JSON object without a 'dashboard' key enhance_dashboard succeeds
\* (when the write goes through), the new 'dashboard' holds only templating,
\* links and annotations, and every key the document had, its top-level
\* panels and their exprs included, is unchanged.
C10_NoDashboardKey ==
    (/\ enhLog # <<>>
     /\ EnhLast.io = "ok"
     /\ enhPrev.kind = "json"
     /\ DocBefore.t = "dict"
     /\ ~Has(DocBefore, "dashboard"))
    => /\ ~EnhLast.raised
       /\ enhFile.kind = "json"
       /\ DOMAIN DocAfter.d = DOMAIN DocBefore.d \cup {"dashboard"}
       /\ DOMAIN DashboardAfter.d = Injected
       /\ \A k \in DOMAIN DocBefore.d : DocAfter.d[k] = DocBefore.d[k]

\* a call returned on a document without 'dashboard' whose top-level panel
\* has an expr the panel walk would rewrite
C10_Witness ==
    /\ EnhReturned
    /\ ~Has(DocBefore, "dashboard")
    /\ Has(DocBefore, "panels")
    /\ Has(DocAfter, "dashboard")
    /\ LET e == DocAfter.d["panels"].l[1].d["targets"].l[1].d["expr"].s IN
          /\ e = "rate(birthday_scheduler_a[5m])"
          /\ rewrite_expr(e) # e


-----------------------------------------------------------------------------
(* main                                                                    *)

Files == DOMAIN DASHBOARD_CONFIGS

\* a dashboard file the enhancement goes through on
GoodFile ==
    Json(JDict([meta |-> JStr("v1"),
                dashboard |-> JDict([title |-> JStr("Queues"),
                    panels |-> JList(<<
                        JDict([id |-> JNum(1), title |-> JStr("Rate"),
                               targets |-> JList(<<JDict([expr |->
                                   JStr("rate(birthday_scheduler_a[5m])")])>>)])>>)])]))

\* what a configured file can be when main starts: absent, not JSON (the load
\* raises), a JSON list (the merge raises), a dashboard with null panels (the
\* panel walk raises), a dashboard the enhancement goes through on
MainContents ==
    { Missing,
      Garbage,
      Json(JList(<<>>)),
      Json(JDict([dashboard |-> JDict([title |-> JStr("Queues"), panels |-> JNull])])),
      GoodFile }

Message(msg, file) == [msg |-> msg, file |-> file]

Init ==
    /\ IdleEnh
    /\ IdleUpq
    /\ \/ dirExists = TRUE /\ disk \in [Files -> MainContents]
       \/ dirExists = FALSE /\ disk = [f \in Files |-> Missing]
    /\ disk0 = disk
    /\ pc = "start"
    /\ idx = 1
    /\ out = <<>>

\* lines 303-310: the directory test and the banner
main_start ==
    /\ pc = "start"
    /\ IF ~dirExists
       THEN /\ out' = Append(out, Message("dir_not_found", ""))
            /\ pc' = "exit"                                       \* sys.exit(1)
       ELSE /\ out' = Append(out, Message("starting", ""))
            /\ pc' = "loop"
    /\ UNCHANGED <<dirExists, disk, disk0, idx, enhVars, upqVars>>

\* mutant: the first file that fails ends the loop (break for continue)
main_loop_break ==
    /\ pc = "loop"
    /\ idx <= Len(ConfigOrder)
    /\ LET dashboard_file == ConfigOrder[idx]
           Called(r) ==
               /\ disk' = [disk EXCEPT ![dashboard_file] = r.file]
               /\ out' = out \o <<Message("enhancing", dashboard_file),
                                  Message(IF r.raised THEN "error" ELSE "enhanced",
                                          dashboard_file)>>
               /\ idx' = IF r.raised THEN Len(ConfigOrder) + 1 ELSE idx + 1
       IN  IF disk[dashboard_file].kind = "missing"
           THEN /\ out' = Append(out, Message("not_found", dashboard_file))
                /\ idx' = Len(ConfigOrder) + 1
                /\ disk' = disk
           ELSE \E io \in IoOutcomes :
                    Called(enhance_dashboard(disk[dashboard_file],
                                             DASHBOARD_CONFIGS[dashboard_file], io))
    /\ UNCHANGED <<dirExists, disk0, pc, enhVars, upqVars>>

\* lines 312-323: one iteration of the for loop
main_loop ==
    /\ pc = "loop"
    /\ idx <= Len(ConfigOrder)
    /\ LET dashboard_file == ConfigOrder[idx]
           Called(r) ==
               /\ disk' = [disk EXCEPT ![dashboard_file] = r.file]
               /\ out' = out \o <<Message("enhancing", dashboard_file),
                                  Message(IF r.raised THEN "error" ELSE "enhanced",
                                          dashboard_file)>>
       IN  IF disk[dashboard_file].kind = "missing"
           THEN /\ out' = Append(out, Message("not_found", dashboard_file))
                /\ disk' = disk
           ELSE \E io \in IoOutcomes :
                    Called(enhance_dashboard(disk[dashboard_file],
                                             DASHBOARD_CONFIGS[dashboard_file], io))
    /\ idx' = idx + 1
    /\ UNCHANGED <<dirExists, disk0, pc, enhVars, upqVars>>

\* lines 325-333: the loop is over, the completion message is printed
main_finish ==
    /\ pc = "loop"
    /\ idx > Len(ConfigOrder)
    /\ out' = Append(out, Message("completed", ""))
    /\ pc' = "done"
    /\ UNCHANGED <<dirExists, disk, disk0, idx, enhVars, upqVars>>

Next == main_start \/ main_loop \/ main_finish

Spec == Init /\ [][Next]_vars

-----------------------------------------------------------------------------
(* What main did.                                                          *)

IsAttempt(m) == m.msg \in {"not_found", "enhancing"}

\* the files main got to, in the order it got to them
AttemptedFiles ==
    LET a == SelectSeq(out, IsAttempt) IN [i \in 1..Len(a) |-> a[i].file]

Printed(msg, file) == \E i \in 1..Len(out) : out[i] = Message(msg, file)

\* C1 as stated: main ends in no other way than by its completion message,
\* after every configured file was attempted once, in table order.
C1_AlwaysCompletes ==
    pc \in {"done", "exit"} => (pc = "done" /\ AttemptedFiles = ConfigOrder)

\* what holds of main while it runs in an existing directory: it has not
\* exited, the files attempted so far are the table's first idx - 1 in table
\* order, and once done it has attempted them all and printed the completion
MainOnTrack ==
    /\ pc \in {"start", "loop", "done"}
    /\ pc = "start" => out = <<>>
    /\ pc = "loop" => /\ idx <= Len(ConfigOrder) + 1
                      /\ AttemptedFiles = SubSeq(ConfigOrder, 1, idx - 1)
    /\ pc = "done" => /\ AttemptedFiles = ConfigOrder
                      /\ out[Len(out)] = Message("completed", "")

\* a step of main in an existing directory: into the loop, one file down the
\* table whatever became of the file, or past the last file to the completion
MainAdvances ==
    /\ pc = "start" => pc' = "loop"
    /\ pc = "loop" => \/ idx <= Len(ConfigOrder) /\ idx' = idx + 1 /\ pc' = "loop"
                      \/ idx > Len(ConfigOrder) /\ pc' = "done"

\* C1, amended: when the dashboards directory exists, every configured file is
\* attempted once, in table order, whatever happened to the files before it,
\* and main goes on file by file to its completion message: no step exits
\* early or raises out of the loop.
C1_SkipAndContinue ==
    /\ [](dirExists => MainOnTrack)
    /\ [][dirExists => MainAdvances]_vars

\* main completed after the first file raised, the second was missing and
\* the last was enhanced
C1_Witness ==
    /\ pc = "done"
    /\ Printed("error", ConfigOrder[1])
    /\ Printed("not_found", ConfigOrder[2])
    /\ Printed("enhanced", ConfigOrder[Len(ConfigOrder)])

\* C2: a file whose enhance_dashboard failed has the content it had before
\* the call; only a file whose enhancement completed is modified.
C2_NoCorruption ==
    \A f \in Files :
        /\ Printed("error", f) => disk[f] = disk0[f]
        /\ disk[f] # disk0[f] => Printed("enhanced", f)

====
